---- MODULE Spec2Model ----
(***************************************************************************)
(* A model of astro-validate-env: the rule evaluator and reporter          *)
(* (validateEnv), the declaration generator                                *)
(* (generateProcessEnvDeclaration) and the integration's two hooks         *)
(* (astro:config:setup, astro:build:ssr) together with the start of the    *)
(* server entry the second hook rewrites.                                  *)
(*                                                                         *)
(* Strings the code inspects character by character (environment values,   *)
(* the string constraints) are sequences of one-character strings; Str     *)
(* turns one into the text that is interpolated into a message.  JavaScript*)
(* values that may be undefined are tagged records, so that the code's     *)
(* truthiness tests (`if (exactly)`, `length && ...`) are modelled by      *)
(* Truthy and not by a test for presence.                                  *)
(*                                                                         *)
(* src/unnamed/part_000 holds the validator twice.  The model follows the  *)
(* first version (lines 1-103): it is the one that knows the console       *)
(* logger the injected snippet passes, and it logs a success line.  The    *)
(* second (lines 105-197) has the same loop and report, without the log    *)
(* prefix and without the success line.                                    *)
(***************************************************************************)
EXTENDS Integers, Sequences, FiniteSets, TLC

VARIABLES
  opts,             \* optionsSchema.parse(options): entryFilePath and the rule mapping
  env,              \* process.env of the running process, on the keys of the rules
  invalidVars,      \* validateEnv's invalidVars after its loop
  astroContext,     \* the context validateEnv was last called with
  log,              \* what the running process has emitted, in order
  exitCode,         \* 1 once process.exit(1) was called
  pc,               \* where the lifecycle stands
  command,          \* the command astro:config:setup was called with
  isRestart,        \* the isRestart it was called with
  declFile,         \* process.env.d.ts
  entryFile,        \* the server entry file
  validatorFile,    \* astro-validate-env.mjs beside the entry
  jsonFile,         \* astro-validate-env.json beside the entry
  entryFileContent  \* the hook's local entryFileContent

vars == <<opts, env, invalidVars, astroContext, log, exitCode, pc, command, isRestart,
          declFile, entryFile, validatorFile, jsonFile, entryFileContent>>

(***************************************************************************)
(* Bounds                                                                  *)
(***************************************************************************)
\* longest environment value of the evaluator's specification
MaxLen == 2
\* largest number given to length, min and max
MaxNum == 1
\* most rules in the rule mapping of the lifecycle specification
MaxVars == 2

(***************************************************************************)
(* JavaScript values                                                       *)
(***************************************************************************)
Undefined == [t |-> "undefined"]
JsString(s) == [t |-> "string", v |-> s]
JsNumber(n) == [t |-> "number", v |-> n]
JsBoolean(b) == [t |-> "boolean", v |-> b]
JsArray(a) == [t |-> "array", v |-> a]

\* ToBoolean: undefined, "", 0 and false are falsy; every array is truthy
Truthy(x) ==
  CASE x.t = "undefined" -> FALSE
    [] x.t = "string" -> Len(x.v) > 0
    [] x.t = "number" -> x.v # 0
    [] x.t = "boolean" -> x.v
    [] x.t = "array" -> TRUE

Chars == {"a", ":"}

RECURSIVE StringsUpTo(_)
StringsUpTo(n) ==
  IF n = 0 THEN {<<>>}
  ELSE LET shorter == StringsUpTo(n - 1)
       IN shorter \cup {Append(s, c) : s \in {x \in shorter : Len(x) = n - 1}, c \in Chars}

RECURSIVE Str(_)
Str(s) == IF s = <<>> THEN "" ELSE Head(s) \o Str(Tail(s))

\* Array.prototype.join on an array of texts
RECURSIVE Join(_, _)
Join(parts, sep) ==
  IF parts = <<>> THEN ""
  ELSE IF Len(parts) = 1 THEN parts[1]
  ELSE parts[1] \o sep \o Join(Tail(parts), sep)

\* String.prototype.startsWith / endsWith / includes
StartsWith(value, prefix) ==
  /\ Len(prefix) <= Len(value)
  /\ SubSeq(value, 1, Len(prefix)) = prefix

EndsWith(value, suffix) ==
  /\ Len(suffix) <= Len(value)
  /\ SubSeq(value, Len(value) - Len(suffix) + 1, Len(value)) = suffix

Includes(value, part) ==
  \E i \in 0..(Len(value) - Len(part)) : SubSeq(value, i + 1, i + Len(part)) = part

\* Array.prototype.includes
ArrayIncludes(arr, x) == \E i \in 1..Len(arr) : arr[i] = x

MapStr(arr) == [i \in 1..Len(arr) |-> Str(arr[i])]

\* `new URL(value)` with no base throws unless the value starts with a scheme:
\* an ASCII letter, then letters, digits, "+", "-" or ".", closed by ":".  Over
\* Chars no scheme is a special one, so whatever follows the ":" is accepted.
IsSchemeChar(c) == c = "a"
UrlParses(value) ==
  \E i \in 2..Len(value) :
    /\ value[i] = ":"
    /\ \A j \in 1..(i - 1) : IsSchemeChar(value[j])

getCharacterString(value) == IF value = 1 THEN "character" ELSE "characters"

(***************************************************************************)
(* validateEnv: the evaluation of one rule                                 *)
(***************************************************************************)
\* a variant of Applies that ignores the rule's context
Applies_Everywhere(varConfig, ctx) == TRUE

\* `if (!context.includes(astroContext)) continue`
Applies(varConfig, ctx) == ArrayIncludes(varConfig.context, ctx)

\* The exact-match block: the issues it pushes before its `continue`, none
\* when the block is skipped or the value passes.
ExactlyIssues(exactly, value) ==
  IF ~Truthy(exactly) THEN <<>>
  ELSE IF exactly.t = "array"
    THEN IF ~ArrayIncludes(exactly.v, value)
           THEN <<"Expected to exactly match one of '" \o Join(MapStr(exactly.v), "', '") \o "'">>
           ELSE <<>>
    ELSE IF value # exactly.v
           THEN <<"Expected exactly '" \o Str(exactly.v) \o "'">>
           ELSE <<>>

StartsWithIssue(startsWith, value) ==
  IF Truthy(startsWith) /\ ~StartsWith(value, startsWith.v)
    THEN <<"Expected to start with '" \o Str(startsWith.v) \o "'">> ELSE <<>>

EndsWithIssue(endsWith, value) ==
  IF Truthy(endsWith) /\ ~EndsWith(value, endsWith.v)
    THEN <<"Expected to end with '" \o Str(endsWith.v) \o "'">> ELSE <<>>

IncludesIssue(includes, value) ==
  IF Truthy(includes) /\ ~Includes(value, includes.v)
    THEN <<"Expected to include '" \o Str(includes.v) \o "'">> ELSE <<>>

LengthIssue(length, value) ==
  IF Truthy(length) /\ Len(value) # length.v
    THEN <<"Expected to be exactly " \o ToString(length.v) \o " characters long">> ELSE <<>>

MinIssue(min, value) ==
  IF Len(value) < min
    THEN <<"Expected to be at least " \o ToString(min) \o " " \o getCharacterString(min) \o " long">>
    ELSE <<>>

MaxIssue(max, value) ==
  IF Truthy(max) /\ Len(value) > max.v
    THEN <<"Expected to be at most " \o ToString(max.v) \o " " \o getCharacterString(max.v) \o " long">>
    ELSE <<>>

UrlIssue(url, value) ==
  IF Truthy(url) /\ ~UrlParses(value) THEN <<"Expected to be a valid URL">> ELSE <<>>

\* a variant of AccumulatedIssues that checks the minimum only when no exact
\* length is asked for
AccumulatedIssues_MinUnlessLength(varConfig, value) ==
  StartsWithIssue(varConfig.startsWith, value)
    \o EndsWithIssue(varConfig.endsWith, value)
    \o IncludesIssue(varConfig.includes, value)
    \o LengthIssue(varConfig.length, value)
    \o (IF Truthy(varConfig.length) THEN <<>> ELSE MinIssue(varConfig.min, value))
    \o MaxIssue(varConfig.max, value)
    \o UrlIssue(varConfig.url, value)

\* The seven pushes that follow the exact-match block, in the order of the code
AccumulatedIssues(varConfig, value) ==
  StartsWithIssue(varConfig.startsWith, value)
    \o EndsWithIssue(varConfig.endsWith, value)
    \o IncludesIssue(varConfig.includes, value)
    \o LengthIssue(varConfig.length, value)
    \o MinIssue(varConfig.min, value)
    \o MaxIssue(varConfig.max, value)
    \o UrlIssue(varConfig.url, value)

InvalidVar(key, value, issues, secret) ==
  [key |-> key, value |-> value, issues |-> issues, secret |-> secret]

\* a variant of CheckVar in which "Missing" is not terminal: the pass goes on
\* to the exact-match block with the empty string standing for the absent value
CheckVar_MissingNotTerminal(key, varConfig, ctx, processEnv) ==
  LET value == processEnv[key]
      missing == IF value = Undefined THEN <<"Missing">> ELSE <<>>
      v == IF value = Undefined THEN <<>> ELSE value.v
  IN
  IF ~ArrayIncludes(varConfig.context, ctx) THEN <<>>
  ELSE IF value = Undefined /\ varConfig.optional THEN <<>>
  ELSE IF ExactlyIssues(varConfig.exactly, v) # <<>>
    THEN <<InvalidVar(key, value, missing \o ExactlyIssues(varConfig.exactly, v), varConfig.secret)>>
  ELSE IF Len(missing \o AccumulatedIssues(varConfig, v)) > 0
    THEN <<InvalidVar(key, value, missing \o AccumulatedIssues(varConfig, v), varConfig.secret)>>
  ELSE <<>>

\* One iteration of the loop over Object.entries(vars): what it pushes onto
\* invalidVars (nothing, or one record).  processEnv[key] is process.env[key].
CheckVar(key, varConfig, ctx, processEnv) ==
  LET value == processEnv[key] IN
  IF ~Applies(varConfig, ctx) THEN <<>>
  ELSE IF value = Undefined /\ varConfig.optional THEN <<>>
  ELSE IF value = Undefined
    THEN <<InvalidVar(key, value, <<"Missing">>, varConfig.secret)>>
  ELSE IF ExactlyIssues(varConfig.exactly, value.v) # <<>>
    THEN <<InvalidVar(key, value, ExactlyIssues(varConfig.exactly, value.v), varConfig.secret)>>
  ELSE IF Len(AccumulatedIssues(varConfig, value.v)) > 0
    THEN <<InvalidVar(key, value, AccumulatedIssues(varConfig, value.v), varConfig.secret)>>
  ELSE <<>>

\* The loop: entries is Object.entries(vars), a sequence of [key, config]
RECURSIVE CollectInvalidVars(_, _, _)
CollectInvalidVars(entries, ctx, processEnv) ==
  IF entries = <<>> THEN <<>>
  ELSE CheckVar(entries[1].key, entries[1].config, ctx, processEnv)
         \o CollectInvalidVars(Tail(entries), ctx, processEnv)

(***************************************************************************)
(* validateEnv: the report                                                 *)
(***************************************************************************)
\* a variant of valueString without the redaction of secrets
valueString_NoRedaction(invalidVar) ==
  IF invalidVar.value = Undefined THEN ""
  ELSE IF invalidVar.value.v = <<>> THEN "=\"\""
  ELSE "=" \o Str(invalidVar.value.v)

valueString(invalidVar) ==
  IF invalidVar.value = Undefined THEN ""
  ELSE IF invalidVar.value.v = <<>> THEN "=\"\""
  ELSE IF invalidVar.secret THEN "=<secret>"
  ELSE IF Len(invalidVar.value.v) > 0 THEN "=" \o Str(invalidVar.value.v)
  ELSE ""

ReportLine(invalidVar) ==
  invalidVar.key \o valueString(invalidVar) \o " -> " \o Join(invalidVar.issues, ", ")

\* An observable step of a process: a message handed to a logger, or the exit
Event(logger, level, text) == [logger |-> logger, level |-> level, text |-> text]

\* getLogPrefix: only the native console gets the time and the integration name
getLogPrefix(logger, timeString) ==
  IF logger = "console" THEN timeString \o " [astro-validate-env] " ELSE ""

ReportLines(invalid) == [i \in 1..Len(invalid) |-> Event("console", "error", ReportLine(invalid[i]))]

ExitEvent == Event("process", "exit", "1")

\* a variant of Report in which process.exit(1) comes before the lines
Report_ExitBeforeLines(invalid, logger, timeString) ==
  IF Len(invalid) > 0
    THEN <<Event(logger, "error",
                 getLogPrefix(logger, timeString) \o "The following environment variables are invalid:\n"),
           ExitEvent>>
    ELSE <<Event(logger, "info",
                 getLogPrefix(logger, timeString) \o "All configured environment variables are valid")>>

\* Everything validateEnv does after the loop
Report(invalid, logger, timeString) ==
  IF Len(invalid) > 0
    THEN <<Event(logger, "error",
                 getLogPrefix(logger, timeString) \o "The following environment variables are invalid:\n")>>
           \o ReportLines(invalid)
           \o <<ExitEvent>>
    ELSE <<Event(logger, "info",
                 getLogPrefix(logger, timeString) \o "All configured environment variables are valid")>>

\* validateEnv(vars, astroContext, logger) as a whole: the violations its loop
\* collects, what the process emits, and whether process.exit(1) was reached
Outcome(invalid, logger, timeString) ==
  [invalidVars |-> invalid,
   events |-> Report(invalid, logger, timeString),
   exited |-> Len(invalid) > 0]

validateEnv(entries, ctx, logger, processEnv, timeString) ==
  Outcome(CollectInvalidVars(entries, ctx, processEnv), logger, timeString)

(***************************************************************************)
(* generateProcessEnvDeclaration                                           *)
(***************************************************************************)
\* a variant of MemberLine that also types as optional a variable that is not
\* required in every context
MemberLine_OptionalOutsideContext(key, varConfig) ==
  IF varConfig.optional \/ Len(varConfig.context) < 3 THEN "      readonly " \o key \o "?: string"
  ELSE "      readonly " \o key \o ": string"

MemberLine(key, varConfig) ==
  IF varConfig.optional THEN "      readonly " \o key \o "?: string"
  ELSE "      readonly " \o key \o ": string"

MemberLines(entries) == [i \in 1..Len(entries) |-> MemberLine(entries[i].key, entries[i].config)]

\* lines.join("\n") read back as lines of the file: no line at all still
\* leaves the empty string between the two newlines of the template
JoinedLines(lines) == IF lines = <<>> THEN <<"">> ELSE lines

DeclarationHead == <<"declare global {", "  namespace NodeJS {", "    interface ProcessEnv {">>
DeclarationTail == <<"    }", "  }", "}", "", "export {}">>

\* envDeclartion, as the lines of process.env.d.ts (the leading newline of
\* the template is removed by trimStart)
envDeclartion(entries) == DeclarationHead \o JoinedLines(MemberLines(entries)) \o DeclarationTail

(***************************************************************************)
(* JSON.stringify(opts.vars) and JSON.parse                                *)
(***************************************************************************)
Member(name, value) == [name |-> name, value |-> value]

\* stringify leaves out the members whose value is undefined
Defined(members) == SelectSeq(members, LAMBDA m : m.value # Undefined)

StringifyConfig(varConfig) ==
  Defined(<<Member("context", JsArray(varConfig.context)),
            Member("optional", JsBoolean(varConfig.optional)),
            Member("secret", JsBoolean(varConfig.secret)),
            Member("exactly", varConfig.exactly),
            Member("startsWith", varConfig.startsWith),
            Member("endsWith", varConfig.endsWith),
            Member("includes", varConfig.includes),
            Member("length", varConfig.length),
            Member("min", JsNumber(varConfig.min)),
            Member("max", varConfig.max),
            Member("url", varConfig.url)>>)

JsonStringify(entries) ==
  [i \in 1..Len(entries) |-> [key |-> entries[i].key, members |-> StringifyConfig(entries[i].config)]]

\* reading a property of a parsed object: undefined when the member is not there
Get(members, name) ==
  IF \E i \in 1..Len(members) : members[i].name = name
    THEN members[CHOOSE i \in 1..Len(members) : members[i].name = name].value
    ELSE Undefined

\* the destructuring of line 34 applied to a parsed object
ParseConfig(members) ==
  [context |-> Get(members, "context").v,
   optional |-> Get(members, "optional").v,
   secret |-> Get(members, "secret").v,
   exactly |-> Get(members, "exactly"),
   startsWith |-> Get(members, "startsWith"),
   endsWith |-> Get(members, "endsWith"),
   includes |-> Get(members, "includes"),
   length |-> Get(members, "length"),
   min |-> Get(members, "min").v,
   max |-> Get(members, "max"),
   url |-> Get(members, "url")]

JsonParse(json) ==
  [i \in 1..Len(json) |-> [key |-> json[i].key, config |-> ParseConfig(json[i].members)]]

(***************************************************************************)
(* Files, and the server entry as a module                                 *)
(***************************************************************************)
NoFile == [exists |-> FALSE, content |-> <<>>]
File(content) == [exists |-> TRUE, content |-> content]

Import(specifier) == [kind |-> "import", text |-> specifier]
Statement(text) == [kind |-> "stmt", text |-> text]

ValidatorCopy == "./astro-validate-env.mjs"
\* the template literal of the code is written here with quotes
ReadVarsStatement ==
  Statement("const vars = avefs.readFileSync(import.meta.dirname + '/astro-validate-env.json')")
ValidateStatement == Statement("aveValidateEnv(JSON.parse(vars), \"server\", console)")

\* the snippet the hook puts before the entry's own content
entryFileCode == <<Import("node:fs"), Import(ValidatorCopy), ReadVarsStatement, ValidateStatement>>

\* The body of the entry module, statement by statement.  binding is the
\* snippet's `vars`; a statement that throws, or process.exit, ends the run.
RECURSIVE ExecBody(_, _, _, _)
ExecBody(stmts, binding, processEnv, timeString) ==
  IF stmts = <<>>
    THEN [events |-> <<>>, invalidVars |-> <<>>, context |-> "none", exited |-> FALSE]
  ELSE IF Head(stmts) = ReadVarsStatement
    THEN IF jsonFile.exists
           THEN ExecBody(Tail(stmts), jsonFile.content, processEnv, timeString)
           ELSE [events |-> <<ExitEvent>>, invalidVars |-> <<>>, context |-> "none", exited |-> TRUE]
  ELSE IF Head(stmts) = ValidateStatement
    THEN LET r == validateEnv(JsonParse(binding), "server", "console", processEnv, timeString)
             rest == ExecBody(Tail(stmts), binding, processEnv, timeString)
         IN IF r.exited
              THEN [events |-> r.events, invalidVars |-> r.invalidVars,
                    context |-> "server", exited |-> TRUE]
              ELSE [events |-> r.events \o rest.events, invalidVars |-> r.invalidVars,
                    context |-> "server", exited |-> rest.exited]
  ELSE LET rest == ExecBody(Tail(stmts), binding, processEnv, timeString)
       IN [rest EXCEPT !.events = <<Event("entry", "run", Head(stmts).text)>> \o rest.events]

\* Running the entry file as an ES module: every module it imports is loaded
\* and evaluated, in the order of the import declarations, before the first
\* statement of its body runs
RunModule(content, processEnv, timeString) ==
  LET imports == SelectSeq(content, LAMBDA l : l.kind = "import")
      body == SelectSeq(content, LAMBDA l : l.kind = "stmt")
      unresolved == ArrayIncludes(imports, Import(ValidatorCopy)) /\ ~validatorFile.exists
      evaluated == [i \in 1..Len(imports) |-> Event("module", "evaluate", imports[i].text)]
      run == ExecBody(body, <<>>, processEnv, timeString)
  IN IF unresolved
       THEN [events |-> <<ExitEvent>>, invalidVars |-> <<>>, context |-> "none", exited |-> TRUE]
       ELSE [run EXCEPT !.events = evaluated \o run.events]

(***************************************************************************)
(* The inputs                                                              *)
(***************************************************************************)
AllContexts == <<"dev", "build", "server">>
Contexts == {"dev", "build", "server"}
Commands == {"dev", "build", "preview", "sync"}
TimeStrings == {"09:15:42", "23:59:59"}

\* varsSchema applied to `{}`: the defaults of context, optional, secret and min
DefaultConfig ==
  [context |-> AllContexts, optional |-> FALSE, secret |-> FALSE,
   exactly |-> Undefined, startsWith |-> Undefined, endsWith |-> Undefined,
   includes |-> Undefined, length |-> Undefined, min |-> 1, max |-> Undefined,
   url |-> Undefined]

Strings == StringsUpTo(MaxLen)
Values == {Undefined} \cup {JsString(s) : s \in Strings}
\* length and max: not given, 0, or the largest number; min: 0, its default 1, or the largest
OptionalNumbers == {Undefined, JsNumber(0), JsNumber(MaxNum)}
Minimums == {0, 1, MaxNum}

\* the rules of the evaluator's specification
RuleConfigs ==
  [context : {AllContexts, <<"build">>},
   optional : BOOLEAN,
   secret : BOOLEAN,
   exactly : {Undefined, JsString(<<>>), JsString(<<"a">>), JsArray(<<>>),
              JsArray(<<<<"a">>, <<":">>>>)},
   startsWith : {Undefined, JsString(<<"a">>)},
   endsWith : {Undefined, JsString(<<":">>)},
   includes : {Undefined, JsString(<<":">>)},
   length : OptionalNumbers,
   min : Minimums,
   max : OptionalNumbers,
   url : {Undefined, JsBoolean(TRUE)}]

\* the rules of the lifecycle specification
HostConfigs ==
  {DefaultConfig,
   [DefaultConfig EXCEPT !.optional = TRUE],
   [DefaultConfig EXCEPT !.context = <<"build">>],
   [DefaultConfig EXCEPT !.context = <<"server">>, !.secret = TRUE],
   [DefaultConfig EXCEPT !.context = <<"dev", "server">>, !.url = JsBoolean(TRUE)]}
HostValues == {Undefined, JsString(<<"a">>)}

KeyNames == <<"A", "B", "C", "D">>
Keys == {KeyNames[i] : i \in 1..MaxVars}

\* rule mappings: no key twice
Mappings ==
  {m \in UNION {[1..n -> [key : Keys, config : HostConfigs]] : n \in 0..MaxVars} :
     \A i, j \in 1..Len(m) : i # j => m[i].key # m[j].key}

\* the server entry as the host's build writes it
HostEntries ==
  {<<Statement("start()")>>,
   <<Import("./chunks/server.mjs"), Statement("start()")>>}

KeysOf(entries) == {entries[i].key : i \in 1..Len(entries)}

(***************************************************************************)
(* The state after integration(options)                                    *)
(***************************************************************************)
Constructed(entries) ==
  /\ opts = [entryFilePath |-> "entry.mjs", vars |-> entries]
  /\ env = [k \in KeysOf(entries) |-> Undefined]
  /\ invalidVars = <<>>
  /\ astroContext = "none"
  /\ log = <<>>
  /\ exitCode = 0
  /\ pc = "init"
  /\ command = "none"
  /\ isRestart = FALSE
  /\ declFile = NoFile
  /\ entryFile = NoFile
  /\ validatorFile = NoFile
  /\ jsonFile = NoFile
  /\ entryFileContent = <<>>

Init == \E m \in Mappings : Constructed(m)

InitValidate == \E c \in RuleConfigs : Constructed(<<[key |-> "A", config |-> c]>>)

(***************************************************************************)
(* astro:config:setup                                                      *)
(***************************************************************************)
DeclarationWritten == Event("fs", "writeFile", "process.env.d.ts")

\* a variant of ConfigSetup without the `if (isRestart) return`
ConfigSetup_IgnoresRestart(cmd, restart, e) ==
  /\ pc = "init"
  /\ env' = e
  /\ command' = cmd
  /\ isRestart' = restart
  /\ IF cmd \in {"sync", "dev", "build"}
       THEN /\ declFile' = File(envDeclartion(opts.vars))
            /\ log' = log \o <<DeclarationWritten>>
       ELSE UNCHANGED <<declFile, log>>
  /\ pc' = IF cmd \in {"dev", "build"} THEN "setup_validate" ELSE "setup_done"
  /\ UNCHANGED <<opts, invalidVars, astroContext, exitCode, entryFile, validatorFile,
                 jsonFile, entryFileContent>>

\* The hook up to the end of `await generateProcessEnvDeclaration(...)`, in a
\* process started with environment e
ConfigSetup(cmd, restart, e) ==
  /\ pc = "init"
  /\ env' = e
  /\ command' = cmd
  /\ isRestart' = restart
  /\ IF ~restart /\ cmd \in {"sync", "dev", "build"}
       THEN /\ declFile' = File(envDeclartion(opts.vars))
            /\ log' = log \o <<DeclarationWritten>>
       ELSE UNCHANGED <<declFile, log>>
  /\ pc' = IF ~restart /\ cmd \in {"dev", "build"} THEN "setup_validate" ELSE "setup_done"
  /\ UNCHANGED <<opts, invalidVars, astroContext, exitCode, entryFile, validatorFile,
                 jsonFile, entryFileContent>>

\* `validateEnv(opts.vars, command, logger)` with the logger Astro hands in
ConfigSetupValidate ==
  /\ pc = "setup_validate"
  /\ \E r \in {validateEnv(opts.vars, command, "astro", env, "")} :
        /\ invalidVars' = r.invalidVars
        /\ log' = log \o r.events
        /\ exitCode' = IF r.exited THEN 1 ELSE exitCode
        /\ pc' = IF r.exited THEN "exited" ELSE "setup_done"
  /\ astroContext' = command
  /\ UNCHANGED <<opts, env, command, isRestart, declFile, entryFile, validatorFile,
                 jsonFile, entryFileContent>>

(***************************************************************************)
(* astro:build:ssr, one action for each await                              *)
(***************************************************************************)
\* the host's build has written the server entry
HostBuildServer(content) ==
  /\ pc = "setup_done"
  /\ command = "build"
  /\ entryFile' = File(content)
  /\ pc' = "built"
  /\ UNCHANGED <<opts, env, invalidVars, astroContext, log, exitCode, command, isRestart,
                 declFile, validatorFile, jsonFile, entryFileContent>>

SsrReadEntry ==
  /\ pc = "built"
  /\ log' = log \o <<Event("astro", "info", "Adding env validation to server build...")>>
  /\ entryFileContent' = entryFile.content
  /\ pc' = "ssr_cp"
  /\ UNCHANGED <<opts, env, invalidVars, astroContext, exitCode, command, isRestart,
                 declFile, entryFile, validatorFile, jsonFile>>

SsrCopyValidator ==
  /\ pc = "ssr_cp"
  /\ validatorFile' = File(<<"validateEnv">>)
  /\ pc' = "ssr_json"
  /\ UNCHANGED <<opts, env, invalidVars, astroContext, log, exitCode, command, isRestart,
                 declFile, entryFile, jsonFile, entryFileContent>>

SsrWriteJson ==
  /\ pc = "ssr_json"
  /\ jsonFile' = File(JsonStringify(opts.vars))
  /\ pc' = "ssr_entry"
  /\ UNCHANGED <<opts, env, invalidVars, astroContext, log, exitCode, command, isRestart,
                 declFile, entryFile, validatorFile, entryFileContent>>

SsrWriteEntry ==
  /\ pc = "ssr_entry"
  /\ entryFile' = File(entryFileCode \o entryFileContent)
  /\ log' = log \o <<Event("astro", "info", "Done")>>
  /\ pc' = "ssr_done"
  /\ UNCHANGED <<opts, env, invalidVars, astroContext, exitCode, command, isRestart,
                 declFile, validatorFile, jsonFile, entryFileContent>>

(***************************************************************************)
(* The start of the server: node runs the entry file in environment e      *)
(***************************************************************************)
ServerStart(e, timeString) ==
  /\ pc = "ssr_done"
  /\ env' = e
  /\ \E r \in {RunModule(entryFile.content, e, timeString)} :
        /\ invalidVars' = r.invalidVars
        /\ astroContext' = r.context
        /\ log' = r.events
        /\ exitCode' = IF r.exited THEN 1 ELSE 0
        /\ pc' = IF r.exited THEN "exited" ELSE "server_running"
  /\ command' = "none"
  /\ isRestart' = FALSE
  /\ UNCHANGED <<opts, declFile, entryFile, validatorFile, jsonFile, entryFileContent>>

Envs(valueSet) == [KeysOf(opts.vars) -> valueSet]

Next ==
  \/ \E cmd \in Commands, restart \in BOOLEAN, e \in Envs(HostValues) : ConfigSetup(cmd, restart, e)
  \/ ConfigSetupValidate
  \/ \E content \in HostEntries : HostBuildServer(content)
  \/ SsrReadEntry
  \/ SsrCopyValidator
  \/ SsrWriteJson
  \/ SsrWriteEntry
  \/ \E e \in Envs(HostValues), t \in TimeStrings : ServerStart(e, t)

Spec == Init /\ [][Next]_vars

(***************************************************************************)
(* The evaluator on its own: one call of validateEnv in a process started  *)
(* with environment e, with the logger the integration pairs with the      *)
(* context (console in the server, Astro's logger in dev and build)        *)
(***************************************************************************)
LoggerOf(ctx) == IF ctx = "server" THEN "console" ELSE "astro"

ValidateEnvCall(ctx, e, timeString) ==
  /\ pc = "init"
  /\ env' = e
  /\ \E r \in {validateEnv(opts.vars, ctx, LoggerOf(ctx), e, timeString)} :
        /\ invalidVars' = r.invalidVars
        /\ log' = r.events
        /\ exitCode' = IF r.exited THEN 1 ELSE 0
        /\ pc' = IF r.exited THEN "exited" ELSE "returned"
  /\ astroContext' = ctx
  /\ UNCHANGED <<opts, command, isRestart, declFile, entryFile, validatorFile, jsonFile,
                 entryFileContent>>

\* getTimeString is called only when the logger is the console
TimeReads(logger) == IF logger = "console" THEN TimeStrings ELSE {""}

NextValidate ==
  \E ctx \in Contexts, e \in Envs(Values) :
    \E t \in TimeReads(LoggerOf(ctx)) : ValidateEnvCall(ctx, e, t)

SpecValidate == InitValidate /\ [][NextValidate]_vars

(***************************************************************************)
(* What the claims speak of                                                *)
(***************************************************************************)
\* a pass of validateEnv has run: invalidVars, env and astroContext are its
Validated == astroContext # "none"

Rules == 1..Len(opts.vars)
KeyAt(i) == opts.vars[i].key
RuleAt(i) == opts.vars[i].config
ValueAt(i) == env[KeyAt(i)]

\* the rule's context set includes the active context
InContext(i) == astroContext \in {RuleAt(i).context[j] : j \in DOMAIN RuleAt(i).context}

\* the violations recorded for the variable of rule i
ViolationsFor(i) == SelectSeq(invalidVars, LAMBDA iv : iv.key = KeyAt(i))

\* a constraint beyond context, optional, secret and min is set
HasOtherConstraint(i) ==
  \E f \in {"exactly", "startsWith", "endsWith", "includes", "length", "max", "url"} :
    RuleAt(i)[f] # Undefined

(***************************************************************************)
(* C1: for every rule whose context set includes the active context and    *)
(* whose variable is absent from the environment, an optional rule records *)
(* no violation and a non-optional rule records exactly one violation,     *)
(* whose issue list is exactly <<"Missing">> and whose value is absent,    *)
(* whatever other constraints the rule sets.                               *)
(***************************************************************************)
C1_AbsentValue ==
  Validated =>
    \A i \in Rules :
      (InContext(i) /\ ValueAt(i) = Undefined) =>
        IF RuleAt(i).optional
          THEN ViolationsFor(i) = <<>>
          ELSE ViolationsFor(i) =
                 <<[key |-> KeyAt(i), value |-> Undefined, issues |-> <<"Missing">>,
                    secret |-> RuleAt(i).secret]>>

\* a non-optional rule that also sets exact-match, length and URL constraints
\* was evaluated with its variable absent
C1_Witness ==
  /\ Validated
  /\ \E i \in Rules :
       /\ InContext(i) /\ ValueAt(i) = Undefined /\ ~RuleAt(i).optional
       /\ RuleAt(i).exactly # Undefined /\ RuleAt(i).length # Undefined
       /\ RuleAt(i).url # Undefined
       /\ Len(ViolationsFor(i)) = 1

(***************************************************************************)
(* C2: a rule whose context set does not include the active context        *)
(* records no violation, whether its value is absent, empty or present and *)
(* whatever constraints it sets; when no rule is in context the process    *)
(* does not exit.                                                          *)
(***************************************************************************)
C2_ContextGating ==
  Validated =>
    /\ \A i \in Rules : ~InContext(i) => ViolationsFor(i) = <<>>
    /\ (\A i \in Rules : ~InContext(i)) =>
         /\ exitCode = 0
         /\ pc # "exited"
         /\ \A k \in DOMAIN log : log[k].level # "exit"

\* a build-only, non-optional rule with further constraints was evaluated
\* outside the build with the empty string, which every one of them rejects
C2_Witness ==
  /\ Validated
  /\ \E i \in Rules :
       /\ ~InContext(i) /\ astroContext \in {"dev", "server"}
       /\ ValueAt(i) = JsString(<<>>)
       /\ ~RuleAt(i).optional /\ RuleAt(i).min = 1
       /\ RuleAt(i).exactly = JsString(<<"a">>) /\ RuleAt(i).url # Undefined

(***************************************************************************)
(* The constraints as the claims read them: a constraint is set when it    *)
(* was given, whatever its value                                           *)
(***************************************************************************)
Present(i) == ValueAt(i) # Undefined
ExactSet(i) == RuleAt(i).exactly # Undefined
ExactPasses(i) ==
  IF RuleAt(i).exactly.t = "string"
    THEN ValueAt(i).v = RuleAt(i).exactly.v
    ELSE ValueAt(i).v \in {RuleAt(i).exactly.v[j] : j \in DOMAIN RuleAt(i).exactly.v}
ExactIssueText(i) ==
  IF RuleAt(i).exactly.t = "string"
    THEN "Expected exactly '" \o Str(RuleAt(i).exactly.v) \o "'"
    ELSE "Expected to exactly match one of '" \o Join(MapStr(RuleAt(i).exactly.v), "', '") \o "'"

\* the rule applies, the value is present and no exact-match failure stops it
NotStopped(i) == InContext(i) /\ Present(i) /\ (~ExactSet(i) \/ ExactPasses(i))

Plural(n) == IF n = 1 THEN "character" ELSE "characters"
LengthIssueText(n) == "Expected to be exactly " \o ToString(n) \o " characters long"
MinIssueText(n) == "Expected to be at least " \o ToString(n) \o " " \o Plural(n) \o " long"
MaxIssueText(n) == "Expected to be at most " \o ToString(n) \o " " \o Plural(n) \o " long"

\* the issues recorded for the variable of rule i, none when it has no violation
IssuesFor(i) == IF ViolationsFor(i) = <<>> THEN <<>> ELSE ViolationsFor(i)[1].issues
HasIssue(i, text) == \E k \in DOMAIN IssuesFor(i) : IssuesFor(i)[k] = text

If(cond, text) == IF cond THEN <<text>> ELSE <<>>

\* the issues the seven checks owe for rule i, in the order of the claim
OwedIssues(i) ==
  LET r == RuleAt(i)
      v == ValueAt(i).v
  IN If(r.startsWith # Undefined /\ ~StartsWith(v, r.startsWith.v),
        "Expected to start with '" \o Str(r.startsWith.v) \o "'")
     \o If(r.endsWith # Undefined /\ ~EndsWith(v, r.endsWith.v),
           "Expected to end with '" \o Str(r.endsWith.v) \o "'")
     \o If(r.includes # Undefined /\ ~Includes(v, r.includes.v),
           "Expected to include '" \o Str(r.includes.v) \o "'")
     \o If(r.length # Undefined /\ Len(v) # r.length.v, LengthIssueText(r.length.v))
     \o If(Len(v) < r.min, MinIssueText(r.min))
     \o If(r.max # Undefined /\ Len(v) > r.max.v, MaxIssueText(r.max.v))
     \o If(r.url = JsBoolean(TRUE) /\ ~UrlParses(v), "Expected to be a valid URL")

(***************************************************************************)
(* C3: for every applicable rule in which an exact-match constraint is set *)
(* (a string, the empty string included, or a set of strings, the empty    *)
(* set included) and every present value that does not match it, the       *)
(* variable has one violation with exactly one issue, the exact-match      *)
(* issue naming the expected value(s).                                     *)
(***************************************************************************)
C3_ExactMatchTerminal ==
  Validated =>
    \A i \in Rules :
      (InContext(i) /\ Present(i) /\ ExactSet(i) /\ ~ExactPasses(i)) =>
        ViolationsFor(i) =
          <<[key |-> KeyAt(i), value |-> ValueAt(i), issues |-> <<ExactIssueText(i)>>,
             secret |-> RuleAt(i).secret]>>

(***************************************************************************)
(* C4: for every applicable rule and every present value that no           *)
(* exact-match failure stops, the issue list holds an issue for a check    *)
(* exactly when that constraint is set and the value violates it, in the   *)
(* order prefix, suffix, substring, exact length, minimum length, maximum  *)
(* length, URL, and a violation is emitted exactly when the list is not    *)
(* empty.                                                                  *)
(***************************************************************************)
C4_IndependentChecks ==
  Validated =>
    \A i \in Rules :
      NotStopped(i) =>
        IF OwedIssues(i) = <<>>
          THEN ViolationsFor(i) = <<>>
          ELSE ViolationsFor(i) =
                 <<[key |-> KeyAt(i), value |-> ValueAt(i), issues |-> OwedIssues(i),
                    secret |-> RuleAt(i).secret]>>

(***************************************************************************)
(* C5: for every applicable rule and every present value that no           *)
(* exact-match failure stops, a maximum length n >= 0 exceeded by the      *)
(* value yields a violation with the maximum-length issue, and an exact    *)
(* length n >= 0 the value does not have yields a violation with the       *)
(* exact-length issue.                                                     *)
(***************************************************************************)
C5_MaxAndLength ==
  Validated =>
    \A i \in Rules :
      NotStopped(i) =>
        /\ (RuleAt(i).max # Undefined /\ Len(ValueAt(i).v) > RuleAt(i).max.v) =>
             HasIssue(i, MaxIssueText(RuleAt(i).max.v))
        /\ (RuleAt(i).length # Undefined /\ Len(ValueAt(i).v) # RuleAt(i).length.v) =>
             HasIssue(i, LengthIssueText(RuleAt(i).length.v))

(***************************************************************************)
(* C6: the minimum-length check runs for every present value that no       *)
(* exact-match failure stops, whether or not exact-length or               *)
(* maximum-length constraints are set: the minimum-length issue is         *)
(* recorded exactly when the value is shorter than min.  A rule with the   *)
(* default min of 1 and no other constraint records no violation for a     *)
(* non-empty value and one violation with the one issue "at least 1        *)
(* character" for the empty string.                                        *)
(***************************************************************************)
C6_MinimumLength ==
  Validated =>
    \A i \in Rules :
      NotStopped(i) =>
        /\ HasIssue(i, MinIssueText(RuleAt(i).min)) <=> Len(ValueAt(i).v) < RuleAt(i).min
        /\ Len(ViolationsFor(i)) <= 1
        /\ (~HasOtherConstraint(i) /\ RuleAt(i).min = 1) =>
             IF Len(ValueAt(i).v) > 0
               THEN ViolationsFor(i) = <<>>
               ELSE ViolationsFor(i) =
                      <<[key |-> KeyAt(i), value |-> ValueAt(i),
                         issues |-> <<"Expected to be at least 1 character long">>,
                         secret |-> RuleAt(i).secret]>>

\* a value shorter than min was evaluated under a rule that also sets an
\* exact length and a maximum length, and the minimum-length issue is
\* recorded next to the exact-length issue
C6_Witness ==
  /\ Validated
  /\ \E i \in Rules :
       /\ NotStopped(i)
       /\ RuleAt(i).length # Undefined /\ RuleAt(i).length.v > 0
       /\ RuleAt(i).max # Undefined
       /\ Len(ValueAt(i).v) < RuleAt(i).min
       /\ HasIssue(i, MinIssueText(RuleAt(i).min))
       /\ HasIssue(i, LengthIssueText(RuleAt(i).length.v))

(***************************************************************************)
(* C7: each violation line of the report is name, value part, " -> " and   *)
(* the issues joined by ", ", where the value part is empty for an absent  *)
(* value, ="" for the empty string, =<secret> for a non-empty value of a   *)
(* rule whose secret flag is true, and =value otherwise; so the line of a  *)
(* secret variable is the same for every non-empty value that produces     *)
(* the same issues.                                                        *)
(***************************************************************************)
HeaderText == "The following environment variables are invalid:\n"
HeaderTexts == {HeaderText} \cup {t \o " [astro-validate-env] " \o HeaderText : t \in TimeStrings}

\* the violation lines of the report, in the order they were printed
PrintedLines ==
  SelectSeq(log, LAMBDA ev : ev.logger = "console" /\ ev.level = "error" /\ ev.text \notin HeaderTexts)

SecretRule(key) == \E i \in Rules : KeyAt(i) = key /\ RuleAt(i).secret

ValuePart(key, value) ==
  IF value = Undefined THEN ""
  ELSE IF value.v = <<>> THEN "=\"\""
  ELSE IF SecretRule(key) THEN "=<secret>"
  ELSE "=" \o Str(value.v)

SuccessText == "All configured environment variables are valid"
SuccessTexts == {SuccessText} \cup {t \o " [astro-validate-env] " \o SuccessText : t \in TimeStrings}

RuleIndex(key) == CHOOSE i \in Rules : KeyAt(i) = key
LineText(iv) == iv.key \o ValuePart(iv.key, iv.value) \o " -> " \o Join(iv.issues, ", ")

\* the caller of the server's pass is the entry module: what follows the
\* snippet in it runs once validateEnv has returned
CallerWentOn ==
  IF astroContext = "server"
    THEN /\ pc = "server_running"
         /\ \E j, k \in DOMAIN log :
              /\ j < k
              /\ log[j].text \in SuccessTexts
              /\ log[k] = Event("entry", "run", "start()")
    ELSE pc \in {"setup_done", "built", "ssr_cp", "ssr_json", "ssr_entry", "ssr_done"}

C8_ExitAfterReport ==
  Validated =>
    /\ exitCode = 1 <=> invalidVars # <<>>
    /\ invalidVars # <<>> =>
         /\ pc = "exited"
         /\ \E h \in DOMAIN log :
              /\ log[h].level = "error" /\ log[h].text \in HeaderTexts
              /\ \A j \in 1..(h - 1) : log[j].level \notin {"error", "exit"}
              /\ Len(log) = h + Len(invalidVars) + 1
              /\ \A k \in DOMAIN invalidVars :
                   log[h + k] = Event("console", "error", LineText(invalidVars[k]))
              /\ log[Len(log)] = Event("process", "exit", "1")
         /\ \A k, l \in DOMAIN invalidVars :
              k < l => RuleIndex(invalidVars[k].key) < RuleIndex(invalidVars[l].key)
    /\ invalidVars = <<>> =>
         /\ \A j \in DOMAIN log : log[j].level \notin {"error", "exit"}
         /\ Cardinality({j \in DOMAIN log : log[j].level = "info" /\ log[j].text \in SuccessTexts}) = 1
         /\ CallerWentOn

\* a pass recorded a violation for each of two rules and ended the process
C8_Witness ==
  /\ Validated
  /\ Len(invalidVars) = 2
  /\ exitCode = 1
  /\ Len(log) >= 4
  /\ log[Len(log)].level = "exit"

(***************************************************************************)
(* C9: generateProcessEnvDeclaration emits one member line for each rule,  *)
(* in rule-mapping order, typed `KEY?: string` exactly when the rule's     *)
(* optional flag is true and `KEY: string` otherwise; the result depends   *)
(* on no other attribute of a rule, so a non-optional rule scoped to       *)
(* <<"build">> is typed as a required string; the generator reads no       *)
(* environment value and records no violation.                             *)
(***************************************************************************)
C9_Declaration ==
  /\ declFile.exists =>
       LET content == declFile.content
           members == SubSeq(content, 4, Len(content) - 5)
       IN /\ Len(content) >= 9
          /\ SubSeq(content, 1, 3) =
               <<"declare global {", "  namespace NodeJS {", "    interface ProcessEnv {">>
          /\ SubSeq(content, Len(content) - 4, Len(content)) =
               <<"    }", "  }", "}", "", "export {}">>
          /\ IF opts.vars = <<>>
               THEN members = <<"">>
               ELSE /\ Len(members) = Len(opts.vars)
                    /\ \A i \in Rules :
                         members[i] = "      readonly " \o KeyAt(i)
                                        \o (IF RuleAt(i).optional THEN "?: string" ELSE ": string")
  /\ \A i \in Rules : \A c \in HostConfigs :
       c.optional = RuleAt(i).optional =>
         envDeclartion([opts.vars EXCEPT ![i].config = c]) = envDeclartion(opts.vars)
  /\ (pc = "setup_done" /\ command = "sync" /\ ~isRestart) =>
       /\ declFile.exists
       /\ invalidVars = <<>> /\ astroContext = "none"
       /\ exitCode = 0
       /\ log = <<Event("fs", "writeFile", "process.env.d.ts")>>

\* `astro sync` generated the declaration for a mapping that holds an optional
\* rule and a non-optional rule needed only in the build, whose variable is
\* absent from the environment
C9_Witness ==
  /\ pc = "setup_done" /\ command = "sync" /\ ~isRestart
  /\ declFile.exists
  /\ \E i, j \in Rules :
       /\ RuleAt(i).context = <<"build">> /\ ~RuleAt(i).optional
       /\ env[KeyAt(i)] = Undefined
       /\ RuleAt(j).optional

(***************************************************************************)
(* C10: after astro:build:ssr the server entry is the injected snippet     *)
(* followed by the complete original content, so that at server start the  *)
(* rule mapping is read from the sibling JSON file and validated under     *)
(* "server" before any original server code runs; within the hook the      *)
(* validator copy and the JSON file are written before the entry is        *)
(* rewritten; the JSON file holds the normalized rule mapping.             *)
(***************************************************************************)
SnippetInEntry ==
  /\ entryFile.exists
  /\ Len(entryFile.content) >= Len(entryFileCode)
  /\ SubSeq(entryFile.content, 1, Len(entryFileCode)) = entryFileCode

\* what the original entry content makes the server process do
OriginalSteps ==
  {Event("module", "evaluate", entryFileContent[j].text) :
     j \in {k \in DOMAIN entryFileContent : entryFileContent[k].kind = "import"}}
  \cup {Event("entry", "run", entryFileContent[j].text) :
          j \in {k \in DOMAIN entryFileContent : entryFileContent[k].kind = "stmt"}}

ServerStarted == pc \in {"server_running", "exited"} /\ command = "none" /\ entryFile.exists

C10_EntryAfterHook ==
  pc \in {"ssr_done", "server_running"} => entryFile = File(entryFileCode \o entryFileContent)

C10_SiblingsFirst == SnippetInEntry => validatorFile.exists /\ jsonFile.exists

C10_JsonIsMapping == jsonFile.exists => JsonParse(jsonFile.content) = opts.vars

C10_ValidatedFirst ==
  ServerStarted =>
    /\ astroContext = "server"
    /\ invalidVars = CollectInvalidVars(opts.vars, "server", env)
    /\ \E h \in DOMAIN log :
         /\ log[h].text \in HeaderTexts \cup SuccessTexts
         /\ \A j \in 1..(h - 1) : log[j] \notin OriginalSteps

C10_ServerEntry ==
  /\ C10_EntryAfterHook
  /\ C10_SiblingsFirst
  /\ C10_JsonIsMapping
  /\ C10_ValidatedFirst

(***************************************************************************)
(* C11: in astro:config:setup, when isRestart is true neither the          *)
(* declaration is generated nor validation runs; when the command is       *)
(* "sync" the declaration is generated and nothing is validated, so the    *)
(* process does not exit; when the command is "dev" or "build" the         *)
(* declaration is fully written before validation starts and validation    *)
(* uses the context equal to the command, so the declaration is there      *)
(* even when validation ends the process; for any other command neither    *)
(* runs.                                                                   *)
(***************************************************************************)
\* the process is the one the hook was called in, and the hook has begun
InSetupProcess == command # "none" /\ pc # "init"

\* the events of a validation pass: the header, a violation line, the
\* success line or the exit
ValidationEvent(ev) ==
  \/ ev.level \in {"error", "exit"}
  \/ ev.level = "info" /\ ev.text \in SuccessTexts

NothingValidated ==
  /\ ~Validated
  /\ invalidVars = <<>>
  /\ exitCode = 0
  /\ pc # "exited"
  /\ \A j \in DOMAIN log : ~ValidationEvent(log[j])

DeclarationComplete ==
  /\ declFile.exists
  /\ declFile.content = envDeclartion(opts.vars)
  /\ Len(log) >= 1
  /\ log[1] = Event("fs", "writeFile", "process.env.d.ts")

C11_ConfigSetup ==
  InSetupProcess =>
    /\ isRestart => ~declFile.exists /\ NothingValidated
    /\ (~isRestart /\ command = "sync") =>
         DeclarationComplete /\ NothingValidated /\ pc = "setup_done"
    /\ (~isRestart /\ command \in {"dev", "build"}) =>
         /\ DeclarationComplete
         /\ \A j \in DOMAIN log : ValidationEvent(log[j]) => j > 1
         /\ IF pc = "setup_validate"
              THEN NothingValidated
              ELSE /\ astroContext = command
                   /\ invalidVars = CollectInvalidVars(opts.vars, command, env)
                   /\ pc = "exited" <=> invalidVars # <<>>
    /\ (~isRestart /\ command \notin {"sync", "dev", "build"}) =>
         ~declFile.exists /\ NothingValidated

\* `astro build` wrote the declaration and validation then ended the process
C11_Witness ==
  /\ InSetupProcess
  /\ ~isRestart /\ command = "build"
  /\ pc = "exited" /\ exitCode = 1
  /\ astroContext = "build"
  /\ declFile.exists
  /\ Len(log) >= 4
  /\ log[1] = Event("fs", "writeFile", "process.env.d.ts")
  /\ log[Len(log)].level = "exit"

====
